---- MODULE Spec2Model ----
(***************************************************************************)
(* The scene renderer of astroVizualizer: the App component                *)
(* (src/frontend/src/App.tsx), which fetches the scene payload once and    *)
(* shows a loading text, an error text or the Canvas, and the             *)
(* AsteroidScene component (components/AsteroidScene.tsx), which maps the  *)
(* payload to spheres and orbit lines and rotates the whole group by       *)
(* 0.001 rad on every rendered frame.                                      *)
(*                                                                         *)
(* A response body is JSON null (a falsy body, which `sceneData &&` in     *)
(* App.tsx:44 guards against) or a payload of the shape AsteroidSceneProps *)
(* declares, with ids unique within the payload.  Numbers the code only    *)
(* passes through (size, coordinates) are integers here; the rotation,     *)
(* which the code computes, is an IEEE-754 double.                         *)
(***************************************************************************)
EXTENDS Integers, Sequences, FiniteSets

VARIABLES
    sceneData,  \* App state: the stored response body        (App.tsx:9)
    loading,    \* App state: the loading flag                (App.tsx:10)
    error,      \* App state: the error message or null       (App.tsx:11)
    mounted,    \* whether App is mounted
    fetch,      \* the promise of axios.get: idle, pending, fulfilled or a rejection cause
    fetches,    \* number of GET /api/v1/viz/3d-scene requests issued
    view,       \* the output React has committed for App
    groupRef,   \* groupRef.current is the mounted <group> (TRUE) or null (FALSE)
    rotationY,  \* groupRef.current.rotation.y, a double
    frames,     \* number of frames the Canvas has rendered
    rerenders   \* number of re-renders with unchanged state

vars == <<sceneData, loading, error, mounted, fetch, fetches, view, groupRef,
          rotationY, frames, rerenders>>

\* Bounds of the model.
MaxFrames == 11
MaxRerenders == 2

-----------------------------------------------------------------------------
(* Values *)

\* JavaScript null, as the value of `error`.
Null == "null"

ErrorMessage == "Failed to load asteroid data"

LoadingMessage == "Loading asteroid data..."

\* A response body that is JSON null.
NullBody == [tag |-> "null", asteroids |-> <<>>]

Ids == {"2000433", "3542519", "54016476"}

Names == {"Eros", "Apophis"}

P1 == <<1, 0, 0>>
P2 == <<0, 2, 3>>
P3 == <<4, 5, 0>>

\* (position, size, orbit) of a record.
Shapes ==
    { [position |-> P1, size |-> 1, orbit |-> <<P1, P2, P3>>],
      [position |-> P2, size |-> 2, orbit |-> <<P3, P1>>] }

\* The asteroid-scene-records: the element type of AsteroidSceneProps.data.asteroids.
Asteroids ==
    { [id |-> i, name |-> n, position |-> s.position, size |-> s.size, orbit |-> s.orbit] :
        i \in Ids, n \in Names, s \in Shapes }

RECURSIVE SeqsUniqueIds(_)
\* The sequences of at most n records with pairwise distinct ids.
SeqsUniqueIds(n) ==
    IF n = 0 THEN { <<>> }
    ELSE LET shorter == SeqsUniqueIds(n - 1)
             longest == { t \in shorter : Len(t) = n - 1 }
         IN  shorter \cup
             { Append(p[1], p[2]) :
                 p \in { q \in longest \X Asteroids :
                           \A k \in 1..Len(q[1]) : q[1][k].id # q[2].id } }

\* The payloads GET /api/v1/viz/3d-scene can answer with.
Payloads == { [tag |-> "object", asteroids |-> s] : s \in SeqsUniqueIds(Cardinality(Ids)) }

Bodies == Payloads \cup { NullBody }

\* JavaScript truthiness of a response body.
Truthy(body) == body.tag # "null"

-----------------------------------------------------------------------------
(* IEEE-754 doubles between 0 and 2^-2, as exact multiples of 2^-62 held in  *)
(* two limbs <<hi, lo>> of 30 bits: the value is (hi * 2^30 + lo) * 2^-62.   *)

Limb == 2^30

Zero == <<0, 0>>

RECURSIVE BitLen(_)
BitLen(n) == IF n = 0 THEN 0 ELSE 1 + BitLen(n \div 2)

Carry(v) == <<v[1] + v[2] \div Limb, v[2] % Limb>>

\* The exact sum.
AddExact(a, b) == Carry(<<a[1] + b[1], a[2] + b[2]>>)

\* The unit in the last place of the double nearest to v: 53 significant bits.
Ulp(v) ==
    LET len == IF v[1] > 0 THEN 30 + BitLen(v[1]) ELSE BitLen(v[2])
    IN  IF len > 53 THEN 2^(len - 53) ELSE 1

\* Round to nearest, ties to even.
RoundDouble(v) ==
    LET ulp  == Ulp(v)
        r    == v[2] % ulp
        down == v[2] - r
        up   == 2 * r > ulp \/ (2 * r = ulp /\ (down \div ulp) % 2 = 1)
    IN  Carry(<<v[1], IF up THEN down + ulp ELSE down>>)

\* a + b in JavaScript.
AddDouble(a, b) == RoundDouble(AddExact(a, b))

RECURSIVE TimesExact(_, _)
\* The exact product k * v.
TimesExact(k, v) == IF k = 0 THEN Zero ELSE AddExact(TimesExact(k - 1, v), v)

\* k * v in JavaScript.
TimesDouble(k, v) == RoundDouble(TimesExact(k, v))

Less(a, b) == a[1] < b[1] \/ (a[1] = b[1] /\ a[2] < b[2])

\* a - b for a >= b.
SubExact(a, b) ==
    IF a[2] >= b[2] THEN <<a[1] - b[1], a[2] - b[2]>>
    ELSE <<a[1] - b[1] - 1, a[2] + Limb - b[2]>>

AbsDiff(a, b) == IF Less(a, b) THEN SubExact(b, a) ELSE SubExact(a, b)

\* The literal 0.001: 0x10624DD2F1A9FC * 2^-62.
Increment == <<4294967, 317827580>>

-----------------------------------------------------------------------------
(* AsteroidScene: the scene graph rendered for a payload *)

\* <Sphere args={[1, 32, 32]} position={[0, 0, 0]}>
Sun == [type |-> "Sphere", args |-> <<1, 32, 32>>, position |-> <<0, 0, 0>>]

\* Mutants of AsteroidSubtree.
AsteroidSubtreeSwapsRadius(asteroid) ==
    [type |-> "group", key |-> asteroid.id,
     children |-> << [type |-> "Sphere", args |-> <<16, asteroid.size, 16>>,
                      position |-> asteroid.position],
                     [type |-> "Line", points |-> asteroid.orbit] >>]

AsteroidSubtreeClosesOrbit(asteroid) ==
    [type |-> "group", key |-> asteroid.id,
     children |-> << [type |-> "Sphere", args |-> <<asteroid.size, 16, 16>>,
                      position |-> asteroid.position],
                     [type |-> "Line",
                      points |-> IF asteroid.orbit = <<>> THEN <<>>
                                 ELSE Append(asteroid.orbit, Head(asteroid.orbit))] >>]

AsteroidSubtreeKeyedByName(asteroid) ==
    [type |-> "group", key |-> asteroid.name,
     children |-> << [type |-> "Sphere", args |-> <<asteroid.size, 16, 16>>,
                      position |-> asteroid.position],
                     [type |-> "Line", points |-> asteroid.orbit] >>]

\* <group key={asteroid.id}> <Sphere .../> <Line .../> </group>
AsteroidSubtree(asteroid) ==
    [type |-> "group", key |-> asteroid.id,
     children |-> << [type |-> "Sphere", args |-> <<asteroid.size, 16, 16>>,
                      position |-> asteroid.position],
                     [type |-> "Line", points |-> asteroid.orbit] >>]

\* Mutant of AsteroidScene: the first record of the payload is skipped.
AsteroidSceneSkipsFirst(data) ==
    [type |-> "group", key |-> "",
     children |-> <<Sun>> \o [k \in 1..(Len(data.asteroids) - 1) |->
                                AsteroidSubtree(data.asteroids[k + 1])]]

\* The element AsteroidScene returns: the group of the sun and one subtree per record.
AsteroidScene(data) ==
    [type |-> "group", key |-> "",
     children |-> <<Sun>> \o [k \in 1..Len(data.asteroids) |->
                                AsteroidSubtree(data.asteroids[k])]]

-----------------------------------------------------------------------------
(* App *)

\* What App returns for its three state values.
App(sd, ld, er) ==
    IF ld THEN [kind |-> "loading", text |-> LoadingMessage, canvas |-> <<>>]
    ELSE IF er # Null /\ er # "" THEN [kind |-> "failed", text |-> er, canvas |-> <<>>]
    ELSE [kind |-> "ready", text |-> "",
          canvas |-> IF Truthy(sd) THEN <<AsteroidScene(sd)>> ELSE <<>>]

Unmounted == [kind |-> "unmounted", text |-> "", canvas |-> <<>>]

\* A state setter: React ignores it once the component is unmounted.
SetState(current, new) == IF mounted THEN new ELSE current

Rejected(f) == f \in {"network_error", "bad_status"}

Init ==
    /\ sceneData = NullBody
    /\ loading = TRUE
    /\ error = Null
    /\ mounted = TRUE
    /\ fetch = "idle"
    /\ fetches = 0
    /\ view = App(NullBody, TRUE, Null)
    /\ groupRef = FALSE
    /\ rotationY = Zero
    /\ frames = 0
    /\ rerenders = 0

\* useEffect(() => { ...; fetchSceneData(); }, []): the request is issued once,
\* after the first commit.
RunEffect ==
    /\ mounted
    /\ fetch = "idle"
    /\ fetch' = "pending"
    /\ fetches' = fetches + 1
    /\ UNCHANGED <<sceneData, loading, error, mounted, view, groupRef, rotationY,
                   frames, rerenders>>

\* Mutant of FetchResolve: the stored payload is paired with an error message.
FetchResolveSetsError ==
    /\ fetch = "pending"
    /\ \E body \in Bodies :
          /\ sceneData' = SetState(sceneData, body)
          /\ loading' = SetState(loading, FALSE)
          /\ error' = SetState(error, IF Truthy(body) THEN ErrorMessage ELSE Null)
    /\ fetch' = "fulfilled"
    /\ view' = IF mounted THEN App(sceneData', loading', error') ELSE view
    /\ groupRef' = (mounted /\ view'.canvas # <<>>)
    /\ UNCHANGED <<mounted, fetches, rotationY, frames, rerenders>>

\* The try branch of fetchSceneData after the await: setSceneData(response.data);
\* setLoading(false); and the re-render the two updates cause.
FetchResolve ==
    /\ fetch = "pending"
    /\ \E body \in Bodies :
          /\ sceneData' = SetState(sceneData, body)
          /\ loading' = SetState(loading, FALSE)
    /\ fetch' = "fulfilled"
    /\ view' = IF mounted THEN App(sceneData', loading', error) ELSE view
    /\ groupRef' = (mounted /\ view'.canvas # <<>>)
    /\ UNCHANGED <<error, mounted, fetches, rotationY, frames, rerenders>>

\* Mutants of FetchReject.
FetchRejectRetries ==
    /\ fetch = "pending"
    /\ fetches < 3
    /\ fetch' = "pending"
    /\ fetches' = fetches + 1
    /\ UNCHANGED <<sceneData, loading, error, mounted, view, groupRef, rotationY,
                   frames, rerenders>>

FetchRejectForgetsError ==
    /\ fetch = "pending"
    /\ \E cause \in {"network_error", "bad_status"} : fetch' = cause
    /\ loading' = SetState(loading, FALSE)
    /\ view' = IF mounted THEN App(sceneData, loading', error) ELSE view
    /\ groupRef' = (mounted /\ view'.canvas # <<>>)
    /\ UNCHANGED <<sceneData, error, mounted, fetches, rotationY, frames, rerenders>>

\* The catch branch of fetchSceneData: axios.get rejected (no response, or a status
\* outside 2xx); setError('Failed to load asteroid data'); setLoading(false); and the
\* re-render.
FetchReject ==
    /\ fetch = "pending"
    /\ \E cause \in {"network_error", "bad_status"} : fetch' = cause
    /\ error' = SetState(error, ErrorMessage)
    /\ loading' = SetState(loading, FALSE)
    /\ view' = IF mounted THEN App(sceneData, loading', error') ELSE view
    /\ groupRef' = (mounted /\ view'.canvas # <<>>)
    /\ UNCHANGED <<sceneData, mounted, fetches, rotationY, frames, rerenders>>

\* Mutant of FrameTick: the increment is assigned, not added.
FrameTickAssigns ==
    /\ mounted
    /\ view.kind = "ready"
    /\ frames < MaxFrames
    /\ frames' = frames + 1
    /\ rotationY' = IF groupRef THEN Increment ELSE rotationY
    /\ UNCHANGED <<sceneData, loading, error, mounted, fetch, fetches, view, groupRef,
                   rerenders>>

\* One frame of the Canvas: the useFrame callback of AsteroidScene, when the scene
\* is mounted: if (groupRef.current) groupRef.current.rotation.y += 0.001.
FrameTick ==
    /\ mounted
    /\ view.kind = "ready"
    /\ frames < MaxFrames
    /\ frames' = frames + 1
    /\ rotationY' = IF groupRef THEN AddDouble(rotationY, Increment) ELSE rotationY
    /\ UNCHANGED <<sceneData, loading, error, mounted, fetch, fetches, view, groupRef,
                   rerenders>>

\* Mutant of Rerender: the effect has no dependency list and runs after every render.
RerenderRefetches ==
    /\ mounted
    /\ rerenders < MaxRerenders
    /\ rerenders' = rerenders + 1
    /\ view' = App(sceneData, loading, error)
    /\ groupRef' = (view'.canvas # <<>>)
    /\ fetch' = "pending"
    /\ fetches' = fetches + 1
    /\ UNCHANGED <<sceneData, loading, error, mounted, rotationY, frames>>

\* App (and with it AsteroidScene) renders again with unchanged state; the effect,
\* whose dependency list is [], does not run again, and the mounted group is kept.
Rerender ==
    /\ mounted
    /\ rerenders < MaxRerenders
    /\ rerenders' = rerenders + 1
    /\ view' = App(sceneData, loading, error)
    /\ groupRef' = (view'.canvas # <<>>)
    /\ UNCHANGED <<sceneData, loading, error, mounted, fetch, fetches, rotationY, frames>>

\* App is unmounted; the effect returns no cleanup, so a pending request stays
\* pending.  React has run the effect of the first commit before it unmounts.
Unmount ==
    /\ mounted
    /\ fetch # "idle"
    /\ mounted' = FALSE
    /\ view' = Unmounted
    /\ groupRef' = FALSE
    /\ rotationY' = Zero
    /\ UNCHANGED <<sceneData, loading, error, fetch, fetches, frames, rerenders>>

Next ==
    \/ RunEffect
    \/ FetchResolve
    \/ FetchReject
    \/ FrameTick
    \/ Rerender
    \/ Unmount

Spec == Init /\ [][Next]_vars

-----------------------------------------------------------------------------
(* What is on display *)

RECURSIVE Flatten(_)
\* The primitives (spheres and lines) of a sequence of nodes, groups opened.
Flatten(nodes) ==
    IF nodes = <<>> THEN <<>>
    ELSE LET h == Head(nodes)
         IN  (IF h.type = "group" THEN Flatten(h.children) ELSE <<h>>)
             \o Flatten(Tail(nodes))

IsSphere(n) == n.type = "Sphere"

IsLine(n) == n.type = "Line"

IsGroup(n) == n.type = "group"

Spheres(v) == SelectSeq(Flatten(v.canvas), IsSphere)

Lines(v) == SelectSeq(Flatten(v.canvas), IsLine)

\* The children of the scene's outer group.
SceneChildren(v) == IF v.canvas = <<>> THEN <<>> ELSE v.canvas[1].children

\* The keyed subtrees of the scene.
Subtrees(v) == SelectSeq(SceneChildren(v), IsGroup)

\* The payload is stored and the scene is on display.
SceneShown == mounted /\ view.kind = "ready" /\ Truthy(sceneData)

\* The subtree g shows the record a: one sphere and one line, with a's values.
Shows(g, a) ==
    /\ Len(SelectSeq(g.children, IsSphere)) = 1
    /\ Len(SelectSeq(g.children, IsLine)) = 1
    /\ \E c \in 1..Len(g.children) :
          /\ IsSphere(g.children[c])
          /\ g.children[c].args[1] = a.size
          /\ g.children[c].position = a.position

-----------------------------------------------------------------------------
(* Claims *)

\* C1: within a mount the display leaves `loading` at most once, to `ready` when
\* the request is fulfilled and to `failed` when it is rejected; once it is `ready`
\* or `failed` no step changes what is displayed and no step issues a request.
C1_DisplayLeavesLoadingOnce ==
    [][ mounted' =>
          /\ (view'.kind # view.kind =>
                view.kind = "loading" /\ view'.kind \in {"ready", "failed"})
          /\ (view.kind \in {"ready", "failed"} => view' = view /\ fetches' = fetches)
          /\ (fetch = "pending" /\ fetch' = "fulfilled" => view'.kind = "ready")
          /\ (fetch = "pending" /\ Rejected(fetch') => view'.kind = "failed") ]_vars

C1_Witness ==
    mounted /\ view.kind = "ready" /\ frames >= 1 /\ rerenders >= 1

\* C2: while the request is pending the display is the loading placeholder, and
\* once it was rejected, for either cause, the display is the one generic error
\* message; in neither is the Canvas or any sphere or line rendered.
C2_FailureShowsOnlyTheError ==
    /\ (fetch = "pending" \/ Rejected(fetch)) =>
          view.kind # "ready" /\ view.canvas = <<>> /\ Spheres(view) = <<>>
                              /\ Lines(view) = <<>>
    /\ (mounted /\ fetch = "pending") => view = App(NullBody, TRUE, Null)
    /\ (mounted /\ Rejected(fetch)) =>
          view = [kind |-> "failed", text |-> ErrorMessage, canvas |-> <<>>]

C2_Witness ==
    mounted /\ fetch = "bad_status" /\ view.kind = "failed" /\ rerenders >= 1

\* C3: whenever the request was fulfilled and the display is neither the loading
\* placeholder nor the error message, the sun (a sphere of radius 1 at the origin)
\* is rendered, whatever the response body.
C3_SunAlwaysRendered ==
    (mounted /\ fetch = "fulfilled" /\ view.kind \notin {"loading", "failed"}) =>
        \E k \in 1..Len(SceneChildren(view)) :
            /\ IsSphere(SceneChildren(view)[k])
            /\ SceneChildren(view)[k].args[1] = 1
            /\ SceneChildren(view)[k].position = <<0, 0, 0>>

\* C4: for a fulfilled request whose payload holds N records the scene has exactly
\* N + 1 spheres and N lines and no error message is shown; for N = 0 the scene
\* is the sun alone.
C4_SphereAndLineCount ==
    (mounted /\ fetch = "fulfilled" /\ Truthy(sceneData)) =>
        /\ view.kind = "ready"
        /\ view.text = ""
        /\ Len(Spheres(view)) = Len(sceneData.asteroids) + 1
        /\ Len(Lines(view)) = Len(sceneData.asteroids)
        /\ (sceneData.asteroids = <<>> => SceneChildren(view) = <<Sun>>)

C4_Witness ==
    SceneShown /\ Len(sceneData.asteroids) >= 2

\* C5: for every record of the payload, the sphere of the subtree keyed by the
\* record's id has the record's size as radius and the record's position as
\* position, after any number of frames.
C5_SphereHasSizeAndPosition ==
    SceneShown =>
        \A k \in 1..Len(sceneData.asteroids) :
            \E j \in 1..Len(Subtrees(view)) :
                /\ Subtrees(view)[j].key = sceneData.asteroids[k].id
                /\ Shows(Subtrees(view)[j], sceneData.asteroids[k])

C5_Witness ==
    /\ SceneShown
    /\ frames >= 2
    /\ Len(sceneData.asteroids) >= 2
    /\ sceneData.asteroids[1].size # sceneData.asteroids[2].size

\* C6: for every record whose orbit has at least two points, the line of the
\* subtree keyed by the record's id has exactly the orbit's points, in the orbit's
\* order, and that subtree is the one holding the record's sphere.
C6_LineFollowsOrbit ==
    SceneShown =>
        \A k \in 1..Len(sceneData.asteroids) :
            Len(sceneData.asteroids[k].orbit) >= 2 =>
                \E j \in 1..Len(Subtrees(view)) :
                    LET g == Subtrees(view)[j]
                        a == sceneData.asteroids[k]
                    IN  /\ g.key = a.id
                        /\ Shows(g, a)
                        /\ \A c \in 1..Len(g.children) :
                              IsLine(g.children[c]) => g.children[c].points = a.orbit

C6_Witness ==
    /\ SceneShown
    /\ Len(sceneData.asteroids) >= 2
    /\ sceneData.asteroids[1].orbit = <<P3, P1>>
    /\ sceneData.asteroids[2].orbit = <<P1, P2, P3>>

\* C7: the scene has one subtree per record, keyed by the record's id, no two
\* subtrees share a key, and rendering again with the payload unchanged leaves
\* what is displayed unchanged.
C7_RerenderIsIdempotent ==
    /\ [](SceneShown =>
            /\ Len(Subtrees(view)) = Len(sceneData.asteroids)
            /\ \A j \in 1..Len(Subtrees(view)) :
                  Subtrees(view)[j].key = sceneData.asteroids[j].id
            /\ \A i, j \in 1..Len(Subtrees(view)) :
                  i # j => Subtrees(view)[i].key # Subtrees(view)[j].key)
    /\ [][rerenders' = rerenders + 1 => view' = view]_vars

C7_Witness ==
    /\ SceneShown
    /\ rerenders >= 2
    /\ Len(sceneData.asteroids) >= 2
    /\ sceneData.asteroids[1].name = sceneData.asteroids[2].name

RECURSIVE SumDouble(_)
\* 0.001 added k times to 0, as JavaScript adds.
SumDouble(k) == IF k = 0 THEN Zero ELSE AddDouble(SumDouble(k - 1), Increment)

\* C8 as stated: after K frames the rotation about y equals K * 0.001.
C8_RotationIsKTimesIncrement ==
    groupRef => rotationY = TimesDouble(frames, Increment)

\* C8 amended: after K frames the rotation about y is 0.001 added K times in
\* double precision, no frame reset or skipped.  That is K * 0.001 for K <= 9 and
\* within K half-units in the last place of the exact K * 0.001 for every K.
C8_RotationIsKFoldSum ==
    groupRef =>
        /\ rotationY = SumDouble(frames)
        /\ (frames <= 9 => rotationY = TimesDouble(frames, Increment))
        /\ LET d == AbsDiff(rotationY, TimesExact(frames, Increment))
           IN  d[1] = 0 /\ 2 * d[2] <= frames * Ulp(rotationY)

C8_Witness ==
    groupRef /\ frames >= 10 /\ rerenders >= 1 /\ Len(sceneData.asteroids) >= 2

\* C9: one request is issued per mount, and after an unmount no step (the
\* settlement of the request included) changes what is displayed or the stored
\* state, or issues a request.
C9_OneFetchAndDiscardAfterUnmount ==
    /\ [](fetches <= 1 /\ (fetch # "idle" <=> fetches = 1))
    /\ [][ ~mounted =>
             /\ view' = view
             /\ fetches' = fetches
             /\ sceneData' = sceneData /\ loading' = loading /\ error' = error ]_vars

C9_Witness ==
    ~mounted /\ Rejected(fetch) /\ loading

\* C10: a stored payload and a stored error never coexist, loading only changes
\* from true to false, and sceneData and error are each written at most once: only
\* by the settlement of the one request, which never becomes pending again.
C10_FlagsAreConsistent ==
    /\ [](~(sceneData # NullBody /\ error # Null))
    /\ [][ /\ (loading' # loading => loading /\ ~loading')
           /\ (sceneData' # sceneData =>
                 sceneData = NullBody /\ fetch = "pending" /\ fetch' = "fulfilled")
           /\ (error' # error =>
                 error = Null /\ fetch = "pending" /\ Rejected(fetch'))
           /\ (fetch' # fetch => fetch \in {"idle", "pending"})
           /\ (fetch' = "pending" /\ fetch # "pending" => fetch = "idle") ]_vars

C10_Witness ==
    mounted /\ fetch = "fulfilled" /\ sceneData # NullBody /\ error = Null /\ ~loading

====
